---- MODULE Spec2Model ----
(***************************************************************************)
(* nanomix: cell-type deconvolution of a methylome against a reference     *)
(* atlas.  The model covers the two entry points of the repository:        *)
(*   - fit_model      (python/nanomix/models.py), one sample;              *)
(*   - deconvolve + main (scripts/nanomix.py), a batch of samples;         *)
(* and the optimisation drivers they dispatch to (fit_uniform, fit_nnls,   *)
(* fit_llse, fit_llsp).                                                    *)
(*                                                                         *)
(* Numbers are exact rationals: a vector is [num |-> <<n1..nK>>, den |-> d]*)
(* and stands for <<n1/d, .., nK/d>>.  den = 0 stands for the IEEE result  *)
(* of 0/0 (NaN): numpy divides without raising.                            *)
(*                                                                         *)
(* scipy.optimize.minimize and scipy.optimize.nnls are library calls.      *)
(* nnls is modelled by the Karush-Kuhn-Tucker conditions that characterise *)
(* its result; minimize by a nondeterministic choice among the results it  *)
(* can hand back (MinimizeResults).                                        *)
(***************************************************************************)
EXTENDS Integers, Sequences, FiniteSets, Bags, TLC

\* ------------------------------------------------------------------ bounds
\* Number of methylome files given to deconvolve.
MaxFiles == 2
\* Solver iterates are reported on a grid: x[j] = n/Scale.
Scale == 2
\* The SLSQP equality constraint 1 - sum(x) = 0 holds only approximately:
\* |sum(n) - Scale| <= Slack.
Slack == 1
\* Number of leading cell types a minimize result may put mass on.
Support == 2
\* Grid of the nnls solutions: x[j] = n/NnlsScale.
NnlsScale == 3
\* Number of distinct results minimize can return for one atlas and sample
\* in the specification that observes the trials (SpecTrials).
MaxOptima == 2

\* Number of CpG sites (rows) of the atlas file.
AtlasSites == 2
\* Number of cell-type columns of the small atlas file.
SmallAtlasK == 2

\* ------------------------------------------------------- program constants
\* n_trials = 10 (fit_llsp, fit_llse)
n_trials == 10
\* true_sigma = np.zeros(25) (deconvolve)
TrueSigmaLen == 25
\* --p01 and --p11 are n/RateDen: the defaults are 0.05 and 0.95.
RateDen == 20

\* ----------------------------------------------------------------- values
None == <<>>
Some(v) == <<v>>
IsSome(o) == o # <<>>
Val(o) == o[1]

RECURSIVE SumSeq(_)
SumSeq(q) == IF q = <<>> THEN 0 ELSE Head(q) + SumSeq(Tail(q))

\* np.zeros / a vector padded with zeros to length k.
Pad(q, k) == [j \in 1..k |-> IF j <= Len(q) THEN q[j] ELSE 0]

\* A vector with an undefined entry (numpy: 0/0, nan/anything).
NaNVec(k) == [num |-> [j \in 1..k |-> 0], den |-> 0]
IsNaNVec(v) == v.den = 0

\* Equality of two vectors as rationals.
VecEq(u, v) ==
    /\ Len(u.num) = Len(v.num)
    /\ (u.den = 0) = (v.den = 0)
    /\ \A j \in 1..Len(u.num) : u.num[j] * v.den = v.num[j] * u.den

\* A point of the probability simplex over k cell types.
OnSimplex(v, k) ==
    /\ Len(v.num) = k
    /\ v.den > 0
    /\ \A j \in 1..k : v.num[j] >= 0
    /\ SumSeq(v.num) = v.den

\* An objective value is -log(lik/d) for a likelihood lik/d, with d the same
\* for all values of one fit: a finite double when lik > 0, +inf when
\* lik = 0, and NaN when the likelihood was evaluated at a NaN.
Fun(lik) == [kind |-> IF lik = 0 THEN "inf" ELSE "fin", lik |-> lik]
Inf == Fun(0)
NaN == [kind |-> "nan", lik |-> 0]

\* a < b on doubles: every comparison with NaN is False.
Lt(a, b) == a.kind # "nan" /\ b.kind # "nan" /\ a.lik > b.lik

\* a <= b on doubles.
Le(a, b) == a.kind # "nan" /\ b.kind # "nan" /\ a.lik >= b.lik

\* ----------------------------------------------------------------- inputs
ModelNames == {"null", "nnls", "llse", "llsp", "foo"}

\* The atlas file: one row per CpG site, one column per cell type.  Site i
\* is a marker of cell type ((i-1) % 2) + 1.
AtlasFile(k) ==
    [K |-> k,
     rows |-> [i \in 1..AtlasSites |->
                 [j \in 1..k |-> IF j = ((i - 1) % 2) + 1 THEN 1 ELSE 0]]]
AtlasFiles == {AtlasFile(SmallAtlasK), AtlasFile(TrueSigmaLen)}

\* --p01, --p11: the defaults, and the noise-free rates 0 and 1.
ErrorRates == {[p01 |-> 1, p11 |-> RateDen - 1], [p01 |-> 0, p11 |-> RateDen]}

\* A methylome file: no data rows at all (pandas raises EmptyDataError), or
\* per atlas site either no row or <<modified_calls, total_calls>>.
Absent == <<>>
FileKinds == {"empty", "no_overlap", "zero_calls", "partial", "full"}
Calls(kind, i) ==
    CASE kind = "empty" -> Absent
      [] kind = "no_overlap" -> Absent
      [] kind = "zero_calls" -> IF i = 1 THEN <<0, 0>> ELSE <<1, 1>>
      [] kind = "partial" -> IF i = 1 THEN Absent ELSE <<1, 1>>
      [] OTHER -> <<1, 1>>
MethylomeFile(path, kind) ==
    [path |-> path,
     empty |-> kind = "empty",
     calls |-> [i \in 1..AtlasSites |-> Calls(kind, i)]]

\* A path is <<directory, stem, extension>>; the stem is the position of the
\* file on the command line.
MethylomePath(i) == <<"data", i, "tsv">>

\* get_sample_name: s.split('/')[-1].split('.')[0]
get_sample_name(path) == path[2]

\* ------------------------------------------------------ tables and objects
\* gr_atlas.join(gr_sample): the atlas rows whose site has a row in the
\* sample, in site order, with the sample's two count columns.
JoinRows(atlas_rows, calls) ==
    LET all == [i \in 1..Len(atlas_rows) |->
                  [site |-> i,
                   v |-> atlas_rows[i],
                   present |-> calls[i] # Absent,
                   modified_calls |-> IF calls[i] # Absent THEN calls[i][1] ELSE 0,
                   total_calls |-> IF calls[i] # Absent THEN calls[i][2] ELSE 0]]
        Present(r) == r.present
    IN  SelectSeq(all, Present)

\* ReferenceAtlas.__init__ on the atlas columns of the join.
ReferenceAtlas(k, rows) ==
    [is |-> "ReferenceAtlas",
     K |-> k,
     cpg_ids |-> [i \in 1..Len(rows) |-> rows[i].site],
     A |-> [i \in 1..Len(rows) |-> rows[i].v]]

\* The parameter `atlas` of deconvolve before the loop rebinds it: a path.
AtlasPath == [is |-> "str", K |-> 0, cpg_ids |-> <<>>, A |-> <<>>]

\* xhat = m/t on float32 arrays: elementwise, 0/0 gives NaN and no exception.
Divide(m, t) == [i \in 1..Len(m) |-> [num |-> m[i], den |-> t[i]]]

\* Sample.__init__
Sample(name, x_hat, m, t) == [name |-> name, x_hat |-> x_hat, m |-> m, t |-> t]

HasNaN(x_hat) == \E i \in 1..Len(x_hat) : x_hat[i].den = 0

\* ---------------------------------------------------------------- drivers
\* x / np.sum(x): every entry divided by the sum of the entries.
Normalise(x) ==
    IF x.den = 0 THEN NaNVec(Len(x.num))
    ELSE [num |-> x.num, den |-> SumSeq(x.num)]

\* fit_uniform: np.array([1.0 / atlas.K] * atlas.K)
fit_uniform(atlas) == [num |-> [j \in 1..atlas.K |-> 1], den |-> atlas.K]

RECURSIVE ProdDen(_)
ProdDen(x_hat) ==
    IF x_hat = <<>> THEN 1 ELSE Head(x_hat).den * ProdDen(Tail(x_hat))

\* scipy.optimize.nnls(A', b') with A' = A plus a row of ones and
\* b' = x_hat plus 1.0: x = n/NnlsScale solves min ||A'x - b'||, x >= 0,
\* iff it satisfies the Karush-Kuhn-Tucker conditions: the gradient g of
\* the squared residual is >= 0 and g[j] = 0 wherever x[j] > 0.  The
\* quantities below are the residuals and the gradient times positive
\* integers.
NnlsKKT(atlas, x_hat, n) ==
    LET N == Len(atlas.A)
        L == ProdDen(x_hat)
        Dot(i) == SumSeq([j \in 1..atlas.K |-> atlas.A[i][j] * n[j]])
        R(i) == x_hat[i].den * Dot(i) - NnlsScale * x_hat[i].num
        Rlast == SumSeq(n) - NnlsScale
        G(j) == SumSeq([i \in 1..N |->
                          atlas.A[i][j] * R(i) * (L \div x_hat[i].den)])
                + L * Rlast
    IN  \A j \in 1..atlas.K :
            /\ n[j] >= 0
            /\ G(j) >= 0
            /\ (n[j] > 0 => G(j) = 0)

\* The nnls solutions on the grid whose mass lies on the leading cell types.
NnlsSolutions(atlas, x_hat) ==
    LET w == IF atlas.K < Support + 1 THEN atlas.K ELSE Support + 1
    IN  {n \in {Pad(v, atlas.K) : v \in [1..w -> 0..NnlsScale]} :
            NnlsKKT(atlas, x_hat, n)}

\* fit_nnls: res = nnls(A, b); return res[0]/np.sum(res[0])
fit_nnls(atlas, sample) ==
    {Normalise([num |-> n, den |-> NnlsScale]) :
        n \in NnlsSolutions(atlas, sample.x_hat)}

\* The points minimize(method='SLSQP', bounds=[(0,1)]*K, constraints=eq)
\* can stop at: inside the bounds, the equality constraint met up to Slack.
XCands(k) ==
    LET w == IF k < Support THEN k ELSE Support
    IN  {Pad(v, k) : v \in {u \in [1..w -> 0..Scale] :
            /\ SumSeq(u) - Scale <= Slack
            /\ Scale - SumSeq(u) <= Slack}}

RECURSIVE Pow(_, _)
Pow(b, e) == IF e = 0 THEN 1 ELSE b * Pow(b, e - 1)

RECURSIVE ProdSeq(_)
ProdSeq(q) == IF q = <<>> THEN 1 ELSE Head(q) * ProdSeq(Tail(q))

\* x = np.clip(np.ravel(atlas.get_x(sigma_t)), 0, 1.0), times Scale, for
\* sigma = n/Scale.
ClippedX(atlas, n, i) ==
    LET d == SumSeq([j \in 1..atlas.K |-> atlas.A[i][j] * n[j]])
    IN  IF d < 0 THEN 0 ELSE IF d > Scale THEN Scale ELSE d

\* The product over the sites of p^m (1-p)^(t-m), with p = pn/d: the
\* binomial pmf without its coefficient, times d^sum(t).
BinomProduct(sample, pn, d) ==
    ProdSeq([i \in 1..Len(sample.m) |->
               Pow(pn[i], sample.m[i]) * Pow(d - pn[i], sample.t[i] - sample.m[i])])

\* exp(log_likelihood_sequencing_perfect): p = x.
likelihood_sequencing_perfect(atlas, n, sample) ==
    BinomProduct(sample,
                 [i \in 1..Len(sample.m) |-> ClippedX(atlas, n, i)], Scale)

\* exp(log_likelihood_sequencing_with_errors):
\* p = x * p11 + (1-x) * p01 if p11 else x * (1 - p01) + (1 - x) * p01
likelihood_sequencing_with_errors(atlas, n, sample, p01, p11) ==
    LET x(i) == ClippedX(atlas, n, i)
        pn(i) == IF p11 # 0
                 THEN x(i) * p11 + (Scale - x(i)) * p01
                 ELSE x(i) * (RateDen - p01) + (Scale - x(i)) * p01
    IN  BinomProduct(sample, [i \in 1..Len(sample.m) |-> pn(i)],
                     Scale * RateDen)

\* f = lambda x: -1 * log_likelihood_...(atlas, x, sample, p01, p11), at
\* the point n/Scale.
Objective(mdl, atlas, n, sample, p01, p11) ==
    Fun(IF mdl = "llsp"
        THEN likelihood_sequencing_perfect(atlas, n, sample)
        ELSE likelihood_sequencing_with_errors(atlas, n, sample, p01, p11))

\* An OptimizeResult: res.x and res.fun = f(res.x).  SLSQP differentiates f
\* by finite differences: where f is +inf the difference is NaN, the
\* iterate becomes NaN and so does f.  A NaN result is possible exactly
\* when f is +inf at some point the search can visit.
MinimizeResults(mdl, atlas, sample, p01, p11) ==
    LET at == {[x |-> [num |-> c, den |-> Scale],
                fun |-> Objective(mdl, atlas, c, sample, p01, p11)] :
                  c \in XCands(atlas.K)}
    IN  at \cup IF \E r \in at : r.fun = Inf
                THEN {[x |-> NaNVec(atlas.K), fun |-> NaN]}
                ELSE {}

\* KeepBest with the assignment best_ll = ll left out.
KeepBest_StaleLL(best, r) ==
    IF Lt(r.fun, best.best_ll)
    THEN [best_ll |-> best.best_ll, best_sol |-> Some(r)]
    ELSE best

\* KeepBest with the comparison left out: the last result is kept.
KeepBest_KeepLast(best, r) == [best_ll |-> r.fun, best_sol |-> Some(r)]

\* The body of the multi-start loop: ll = res.get("fun");
\* if ll < best_ll: best_ll = ll; best_sol = res
KeepBest(best, r) ==
    IF Lt(r.fun, best.best_ll)
    THEN [best_ll |-> r.fun, best_sol |-> Some(r)]
    ELSE best

\* ------------------------------------------------------------------- state
VARIABLES
    entry,          \* "fit_model" or "deconvolve" (then main)
    model,          \* the model name given by the caller
    random_inits,   \* --random_inits (scripts/nanomix.py only)
    p01,            \* --p01 times RateDen
    p11,            \* --p11 times RateDen
    atlas_file,     \* content of the atlas file
    methylomes,     \* content of the methylome files, in command-line order
    pc,             \* position in the code
    raised,         \* the exception that ended the run: <<type, where>>
    gr_atlas,       \* the atlas table, once read
    idx,            \* number of methylomes the for loop has taken
    df,             \* the sample table, once read
    gr,             \* the join of atlas and sample
    atlas,          \* deconvolve: the path, then the ReferenceAtlas
    s,              \* the Sample
    sigma,          \* the fitted mixture vector
    Y,              \* deconvolve: the fitted vectors
    sample_names,   \* deconvolve: the names
    trial,          \* multi-start: trials done
    best_ll,        \* multi-start: best objective so far
    best_sol,       \* multi-start: result with that objective
    stdout,         \* what was printed
    ret,            \* fit_model: the value returned
    sigma_src,      \* history: name of the sample sigma was fitted to
    Y_src,          \* history: sigma_src of each element of Y
    optima,         \* SpecTrials: results minimize can return on this input
    seen            \* SpecTrials: bag of the trial results so far

vars == <<entry, model, random_inits, p01, p11, atlas_file, methylomes, pc, raised,
          gr_atlas, idx, df, gr, atlas, s, sigma, Y, sample_names, trial,
          best_ll, best_sol, stdout, ret, sigma_src, Y_src, optima, seen>>

inputs == <<entry, model, random_inits, p01, p11, atlas_file, methylomes>>
tables == <<gr_atlas, df, gr>>
multi == <<trial, best_ll, best_sol>>
batch == <<idx, Y, sample_names, Y_src>>
observed == <<optima, seen>>

MethylomeLists ==
    UNION {[1..n -> FileKinds] : n \in 1..MaxFiles}

Files(kinds) ==
    [i \in 1..Len(kinds) |-> MethylomeFile(MethylomePath(i), kinds[i])]

Locals ==
    /\ raised = None
    /\ gr_atlas = None
    /\ idx = 0
    /\ df = None
    /\ gr = None
    /\ s = None
    /\ sigma = None
    /\ Y = <<>>
    /\ sample_names = <<>>
    /\ trial = 0
    /\ best_ll = Inf
    /\ best_sol = None
    /\ stdout = <<>>
    /\ ret = None
    /\ sigma_src = None
    /\ Y_src = <<>>

Init ==
    /\ entry \in {"fit_model", "deconvolve"}
    /\ model \in ModelNames
    /\ random_inits \in (IF entry = "deconvolve" THEN BOOLEAN ELSE {FALSE})
    /\ \E e \in ErrorRates :
          /\ model # "llse" => e.p01 = 1
          /\ p01 = e.p01
          /\ p11 = e.p11
    /\ atlas_file \in AtlasFiles
    /\ \E kinds \in MethylomeLists :
          /\ entry = "fit_model" => Len(kinds) = 1
          /\ methylomes = Files(kinds)
    /\ pc = entry
    /\ atlas = AtlasPath
    /\ Locals
    /\ optima = {}
    /\ seen = EmptyBag

\* An exception that nothing catches ends the run.
Raise(type, where) ==
    /\ raised' = Some(<<type, where>>)
    /\ pc' = "crashed"

AfterFit == IF entry = "deconvolve" THEN "d_append" ELSE "f_return"

\* -------------------------------------------------- scripts/nanomix.py
\* deconvolve, lines 148-156: Y = [], sample_names = [], read the atlas.
D_LoadAtlas ==
    /\ pc = "deconvolve"
    /\ gr_atlas' = Some(atlas_file)
    /\ pc' = "d_for"
    /\ UNCHANGED <<inputs, raised, idx, df, gr, atlas, s, sigma, Y,
                   sample_names, multi, stdout, ret, sigma_src, Y_src, observed>>

\* lines 157-164: the next methylome; an empty file is skipped (continue).
D_Read ==
    /\ pc = "d_for"
    /\ idx < Len(methylomes)
    /\ idx' = idx + 1
    /\ IF methylomes[idx + 1].empty
       THEN /\ pc' = "d_for"
            /\ df' = df
       ELSE /\ pc' = "d_join"
            /\ df' = Some(methylomes[idx + 1].calls)
    /\ UNCHANGED <<inputs, raised, gr_atlas, gr, atlas, s, sigma, Y,
                   sample_names, multi, stdout, ret, sigma_src, Y_src, observed>>

\* line 169: gr = gr_atlas.join(gr_sample)
D_Join ==
    /\ pc = "d_join"
    /\ gr' = Some(JoinRows(Val(gr_atlas).rows, Val(df)))
    /\ pc' = "d_atlas"
    /\ UNCHANGED <<inputs, raised, gr_atlas, idx, df, atlas, s, sigma, Y,
                   sample_names, multi, stdout, ret, sigma_src, Y_src, observed>>

\* line 170: atlas = ReferenceAtlas(gr.df.loc[:, gr_atlas.columns]).  The
\* table of an empty join may have lost its columns (then .loc raises
\* KeyError) or kept them (then the atlas has no rows).
D_BuildAtlas ==
    /\ pc = "d_atlas"
    /\ \/ /\ Val(gr) = <<>>
          /\ Raise("KeyError", "deconvolve:170")
          /\ atlas' = atlas
       \/ /\ atlas' = ReferenceAtlas(Val(gr_atlas).K, Val(gr))
          /\ pc' = "d_sample"
          /\ raised' = raised
    /\ UNCHANGED <<inputs, tables, idx, s, sigma, Y, sample_names, multi,
                   stdout, ret, sigma_src, Y_src, observed>>

\* lines 171-181: t, m, xhat = m/t, the name is appended, the Sample built.
D_Sample ==
    /\ pc = "d_sample"
    /\ LET t == [i \in 1..Len(Val(gr)) |-> Val(gr)[i].total_calls]
           m == [i \in 1..Len(Val(gr)) |-> Val(gr)[i].modified_calls]
           xhat == Divide(m, t)
           name == get_sample_name(methylomes[idx].path)
       IN  /\ sample_names' = Append(sample_names, name)
           /\ s' = Some(Sample(name, xhat, m, t))
    /\ pc' = "d_dispatch"
    /\ UNCHANGED <<inputs, raised, tables, idx, atlas, sigma, Y, multi,
                   stdout, ret, sigma_src, Y_src, observed>>

\* lines 184-191: the dispatch on the model name.  The else branch builds
\* an Exception and drops it: control goes on to line 193.
D_Dispatch ==
    /\ pc = "d_dispatch"
    /\ pc' = CASE model = "nnls" -> "fit_nnls"
               [] model \in {"llse", "llsp"} -> "fit_ll"
               [] OTHER -> "d_append"
    /\ UNCHANGED <<inputs, raised, tables, batch, atlas, s, sigma, multi,
                   stdout, ret, sigma_src, observed>>

\* D_Append with a sample that has no sigma skipped instead of failing.
D_Append_SkipUnfitted ==
    /\ pc = "d_append"
    /\ IF sigma = None
       THEN /\ pc' = "d_for"
            /\ UNCHANGED <<Y, Y_src>>
       ELSE /\ Y' = Append(Y, Val(sigma))
            /\ Y_src' = Append(Y_src, Val(sigma_src))
            /\ pc' = "d_report"
    /\ UNCHANGED <<inputs, raised, tables, idx, atlas, s, sigma, sample_names,
                   multi, stdout, ret, sigma_src, observed>>

\* line 193: Y.append(sigma); sigma is unbound when no branch assigned it.
D_Append ==
    /\ pc = "d_append"
    /\ IF sigma = None
       THEN /\ Raise("UnboundLocalError", "deconvolve:193")
            /\ UNCHANGED <<Y, Y_src>>
       ELSE /\ Y' = Append(Y, Val(sigma))
            /\ Y_src' = Append(Y_src, Val(sigma_src))
            /\ pc' = "d_report"
            /\ raised' = raised
    /\ UNCHANGED <<inputs, tables, idx, atlas, s, sigma, sample_names, multi,
                   stdout, ret, sigma_src, observed>>

\* lines 194-203: the name and the log-likelihood are printed; then
\* true_sigma = np.zeros(25) is reshaped to (atlas.K, 1) by
\* log_likelihood_sequencing_with_errors, a ValueError unless K = 25.
D_Report ==
    /\ pc = "d_report"
    /\ stdout' = Append(stdout, <<"name", Val(s).name>>)
    /\ IF atlas.K # TrueSigmaLen
       THEN Raise("ValueError", "deconvolve:203")
       ELSE /\ pc' = "d_for"
            /\ raised' = raised
    /\ UNCHANGED <<inputs, tables, batch, atlas, s, sigma, multi, ret,
                   sigma_src, observed>>

\* line 205: return Y, sample_names, atlas
D_Return ==
    /\ pc = "d_for"
    /\ idx = Len(methylomes)
    /\ pc' = "main"
    /\ UNCHANGED <<inputs, raised, tables, batch, atlas, s, sigma, multi,
                   stdout, ret, sigma_src, observed>>

\* main, lines 221-224: an Exception is built and dropped when Y is empty;
\* the header and one row per cell type are printed.  atlas is still the
\* path when no methylome was read: a str has no get_cell_types.
M_Print ==
    /\ pc = "main"
    /\ IF atlas.is = "str"
       THEN /\ stdout' = Append(stdout, <<"ct", sample_names>>)
            /\ Raise("AttributeError", "main:223")
       ELSE /\ stdout' = stdout \o << <<"ct", sample_names>>, <<"rows", Y>> >>
            /\ pc' = "done"
            /\ raised' = raised
    /\ UNCHANGED <<inputs, tables, batch, atlas, s, sigma, multi, ret,
                   sigma_src, observed>>

\* ---------------------------------------------- python/nanomix/models.py
\* fit_model, lines 34-41: read the atlas.
F_LoadAtlas ==
    /\ pc = "fit_model"
    /\ gr_atlas' = Some(atlas_file)
    /\ pc' = "f_read"
    /\ UNCHANGED <<inputs, raised, idx, df, gr, atlas, s, sigma, Y,
                   sample_names, multi, stdout, ret, sigma_src, Y_src, observed>>

\* lines 44-49: read the methylome.  On EmptyDataError an Exception is
\* built and dropped, and line 48 reads df, which is unbound.
F_Read ==
    /\ pc = "f_read"
    /\ IF methylomes[1].empty
       THEN /\ Raise("UnboundLocalError", "fit_model:48")
            /\ df' = df
       ELSE /\ df' = Some(methylomes[1].calls)
            /\ pc' = "f_join"
            /\ raised' = raised
    /\ UNCHANGED <<inputs, gr_atlas, gr, batch, atlas, s, sigma, multi,
                   stdout, ret, sigma_src, observed>>

\* lines 52-55: the join; when it is empty an Exception is built and
\* dropped, and control goes on to line 56.
F_Join ==
    /\ pc = "f_join"
    /\ gr' = Some(JoinRows(Val(gr_atlas).rows, Val(df)))
    /\ pc' = "f_atlas"
    /\ UNCHANGED <<inputs, raised, gr_atlas, df, batch, atlas, s, sigma,
                   multi, stdout, ret, sigma_src, observed>>

\* line 56: atlas = ReferenceAtlas(gr.df.loc[:, gr_atlas.columns])
F_BuildAtlas ==
    /\ pc = "f_atlas"
    /\ \/ /\ Val(gr) = <<>>
          /\ Raise("KeyError", "fit_model:56")
          /\ atlas' = atlas
       \/ /\ atlas' = ReferenceAtlas(Val(gr_atlas).K, Val(gr))
          /\ pc' = "f_sample"
          /\ raised' = raised
    /\ UNCHANGED <<inputs, tables, batch, s, sigma, multi, stdout, ret,
                   sigma_src, observed>>

\* lines 57-61: t, m, xhat = m/t, s = Sample('methylome', xhat, m, t)
F_Sample ==
    /\ pc = "f_sample"
    /\ LET t == [i \in 1..Len(Val(gr)) |-> Val(gr)[i].total_calls]
           m == [i \in 1..Len(Val(gr)) |-> Val(gr)[i].modified_calls]
       IN  s' = Some(Sample("methylome", Divide(m, t), m, t))
    /\ pc' = "f_dispatch"
    /\ UNCHANGED <<inputs, raised, tables, batch, atlas, sigma, multi,
                   stdout, ret, sigma_src, observed>>

\* lines 62-71: the dispatch on the model name; the else branch raises.
F_Dispatch ==
    /\ pc = "f_dispatch"
    /\ IF model \in {"nnls", "llse", "llsp", "null"}
       THEN /\ pc' = CASE model = "nnls" -> "fit_nnls"
                       [] model = "null" -> "fit_uniform"
                       [] OTHER -> "fit_ll"
            /\ raised' = raised
       ELSE Raise("ValueError", "fit_model:71")
    /\ UNCHANGED <<inputs, tables, batch, atlas, s, sigma, multi, stdout,
                   ret, sigma_src, observed>>

\* line 72: return sigma
F_Return ==
    /\ pc = "f_return"
    /\ ret' = sigma
    /\ pc' = "done"
    /\ UNCHANGED <<inputs, raised, tables, batch, atlas, s, sigma, multi,
                   stdout, sigma_src, observed>>

\* ------------------------------------------------------------ the drivers
\* fit_uniform (models.py only)
FitUniform ==
    /\ pc = "fit_uniform"
    /\ sigma' = Some(fit_uniform(atlas))
    /\ sigma_src' = Some(Val(s).name)
    /\ pc' = AfterFit
    /\ UNCHANGED <<inputs, raised, tables, batch, atlas, s, multi, stdout,
                   ret, observed>>

\* fit_nnls (both files).  nnls checks its arguments with
\* asarray_chkfinite: a NaN in x_hat is a ValueError.
FitNnls ==
    /\ pc = "fit_nnls"
    /\ IF HasNaN(Val(s).x_hat)
       THEN /\ Raise("ValueError", "nnls")
            /\ UNCHANGED <<sigma, sigma_src>>
       ELSE /\ \E v \in fit_nnls(atlas, Val(s)) : sigma' = Some(v)
            /\ sigma_src' = Some(Val(s).name)
            /\ pc' = AfterFit
            /\ raised' = raised
    /\ UNCHANGED <<inputs, tables, batch, atlas, s, multi, stdout, ret,
                   observed>>

\* models.py has no single-start mode; scripts/nanomix.py takes it unless
\* --random_inits is given.
MultiStart == entry = "fit_model" \/ random_inits

\* fit_llse / fit_llsp, multi-start, up to the loop: n_trials = 10,
\* best_ll = np.inf, best_sol = None.
FitLLStart ==
    /\ pc = "fit_ll"
    /\ MultiStart
    /\ trial' = 0
    /\ best_ll' = Inf
    /\ best_sol' = None
    /\ pc' = "ll_trial"
    /\ UNCHANGED <<inputs, raised, tables, batch, atlas, s, sigma, stdout,
                   ret, sigma_src, observed>>

\* One pass of the loop: res = minimize(f, init, ...), then KeepBest.
TrialBody(r) ==
    /\ pc = "ll_trial"
    /\ trial < n_trials
    /\ trial' = trial + 1
    /\ LET b == KeepBest([best_ll |-> best_ll, best_sol |-> best_sol], r)
       IN  /\ best_ll' = b.best_ll
           /\ best_sol' = b.best_sol
    /\ UNCHANGED <<inputs, pc, raised, tables, batch, atlas, s, sigma,
                   stdout, ret, sigma_src, optima>>

Trial ==
    /\ pc = "ll_trial"
    /\ \E r \in MinimizeResults(model, atlas, Val(s), p01, p11) : TrialBody(r)
    /\ seen' = seen

\* best_sol.x/np.sum(best_sol.x), where there is a best_sol.
ReturnBest(sol) == IF sol = None THEN None ELSE Some(Normalise(Val(sol).x))

\* After the loop: return best_sol.x/np.sum(best_sol.x).  best_sol is still
\* None when no trial had ll < np.inf: None has no attribute x.
FitLLBest ==
    /\ pc = "ll_trial"
    /\ trial = n_trials
    /\ IF best_sol = None
       THEN /\ Raise("AttributeError", "best_sol.x")
            /\ UNCHANGED <<sigma, sigma_src>>
       ELSE /\ sigma' = ReturnBest(best_sol)
            /\ sigma_src' = Some(Val(s).name)
            /\ pc' = AfterFit
            /\ raised' = raised
    /\ UNCHANGED <<inputs, tables, batch, atlas, s, multi, stdout, ret,
                   observed>>

\* fit_llse / fit_llsp of scripts/nanomix.py without --random_inits:
\* res = minimize(f, alpha, ...); return res.x / np.sum(res.x)
FitLLSingle ==
    /\ pc = "fit_ll"
    /\ ~MultiStart
    /\ \E r \in MinimizeResults(model, atlas, Val(s), p01, p11) :
          sigma' = Some(Normalise(r.x))
    /\ sigma_src' = Some(Val(s).name)
    /\ pc' = AfterFit
    /\ UNCHANGED <<inputs, raised, tables, batch, atlas, s, multi, stdout,
                   ret, observed>>

Next ==
    \/ D_LoadAtlas \/ D_Read \/ D_Join \/ D_BuildAtlas \/ D_Sample
    \/ D_Dispatch \/ D_Append \/ D_Report \/ D_Return \/ M_Print
    \/ F_LoadAtlas \/ F_Read \/ F_Join \/ F_BuildAtlas \/ F_Sample
    \/ F_Dispatch \/ F_Return
    \/ FitUniform \/ FitNnls \/ FitLLStart \/ Trial \/ FitLLBest
    \/ FitLLSingle

Spec == Init /\ [][Next]_vars

\* ------------------------------------------------- the trials, observed
\* The multi-start driver as fit_model calls it on a full-coverage sample
\* of the small atlas, with the trial results recorded.  minimize is a
\* deterministic function of its start: on one input it can return only a
\* few distinct results (optima), in an order the random starts decide.
OptimaSets(results) ==
    {o \in SUBSET results : Cardinality(o) >= 1 /\ Cardinality(o) <= MaxOptima}

InitTrials ==
    /\ entry = "fit_model"
    /\ model \in {"llse", "llsp"}
    /\ random_inits = FALSE
    /\ \E e \in ErrorRates :
          /\ model # "llse" => e.p01 = 1
          /\ p01 = e.p01
          /\ p11 = e.p11
    /\ atlas_file = AtlasFile(SmallAtlasK)
    /\ methylomes = Files(<<"full">>)
    /\ pc = "fit_ll"
    /\ raised = None
    /\ gr_atlas = Some(atlas_file)
    /\ idx = 0
    /\ df = Some(methylomes[1].calls)
    /\ gr = Some(JoinRows(atlas_file.rows, methylomes[1].calls))
    /\ atlas = ReferenceAtlas(atlas_file.K, Val(gr))
    /\ LET t == [i \in 1..Len(Val(gr)) |-> Val(gr)[i].total_calls]
           m == [i \in 1..Len(Val(gr)) |-> Val(gr)[i].modified_calls]
       IN  s = Some(Sample("methylome", Divide(m, t), m, t))
    /\ sigma = None
    /\ Y = <<>>
    /\ sample_names = <<>>
    /\ trial = 0
    /\ best_ll = Inf
    /\ best_sol = None
    /\ stdout = <<>>
    /\ ret = None
    /\ sigma_src = None
    /\ Y_src = <<>>
    /\ optima \in OptimaSets(MinimizeResults(model, atlas, Val(s), p01, p11))
    /\ seen = EmptyBag

TrialObserved ==
    \E r \in optima :
        /\ TrialBody(r)
        /\ seen' = seen (+) SetToBag({r})

NextTrials == FitLLStart \/ TrialObserved \/ FitLLBest \/ F_Return

SpecTrials == InitTrials /\ [][NextTrials]_vars

\* ================================================================= claims
SupportedModels == {"null", "nnls", "llse", "llsp"}

\* A driver has just handed a vector back to its caller.
DriverReturned == pc \in {"d_append", "f_return"} /\ IsSome(sigma)

\* K >= 1 and every retained site has total_calls > 0.
ValidPair ==
    /\ atlas.is = "ReferenceAtlas"
    /\ atlas.K >= 1
    /\ IsSome(s)
    /\ \A i \in 1..Len(Val(s).t) : Val(s).t[i] > 0

Trials == BagToSet(seen)
LoopDone == trial = n_trials /\ BagCardinality(seen) = n_trials
MultiReturned == LoopDone /\ pc \in {"f_return", "done"}

\* C2: the objective of the solution the multi-start driver returns is <=
\* the objective of every one of the 10 trial results.
C2_BestLeEveryTrial ==
    MultiReturned => \A r \in Trials : Le(Val(best_sol).fun, r.fun)

\* C2, amended: ... <= the objective of every trial result whose objective
\* is a number; a NaN objective compares with nothing and is passed over.
C2_BestLeEveryNumber ==
    MultiReturned =>
        \A r \in Trials : r.fun # NaN => Le(Val(best_sol).fun, r.fun)

\* C2, witness: 10 trials were compared and one of them was strictly worse
\* than the solution returned.
C2_Witness ==
    /\ MultiReturned
    /\ \E r \in Trials : Lt(Val(best_sol).fun, r.fun)

\* C3: with a model name outside the supported set nothing is loaded,
\* joined, fitted, appended or returned: the run fails before.
C3_UnknownModelFailsFast ==
    model \notin SupportedModels =>
        /\ gr_atlas = None /\ df = None /\ gr = None
        /\ s = None /\ sigma = None
        /\ Y = <<>> /\ sample_names = <<>> /\ ret = None

\* C4: once the join of atlas and sample is found empty the fit of that
\* sample has stopped with an empty-join error: control never goes on to
\* build a ReferenceAtlas or a Sample, to a driver or to a returned vector.
C4_EmptyJoinStops ==
    (IsSome(gr) /\ Val(gr) = <<>> /\ pc \notin {"d_join", "d_atlas", "f_atlas"})
        => (IsSome(raised) /\ Val(raised)[1] = "EmptyJoinError")

\* Methylome i has been taken by the run.
WasRead(i) ==
    IF entry = "deconvolve" THEN idx >= i
    ELSE pc \notin {"fit_model", "f_read"}

\* The run said that methylome i failed: it stopped with the empty-input
\* error, or it printed a line that names the sample as failed.
EmptyInputReported(i) ==
    \/ IsSome(raised) /\ Val(raised)[1] = "EmptyInputError"
    \/ \E k \in 1..Len(stdout) :
          /\ stdout[k][1] = "failed"
          /\ stdout[k][2] = get_sample_name(methylomes[i].path)

\* C5: a methylome file with no data rows ends in a reported empty-input
\* error, in fit_model by failing the run and in deconvolve at least by
\* reporting the sample it skips.
C5_EmptyInputReported ==
    \A i \in 1..Len(methylomes) :
        (methylomes[i].empty /\ WasRead(i)) => EmptyInputReported(i)

\* C6: when no trial improved on the initial best value the driver fails
\* with an optimization-failed error; it never reads best_sol.x of a
\* best_sol that was never assigned.
C6_NoImprovementFailsDistinctly ==
    (trial = n_trials /\ best_sol = None /\ pc # "ll_trial")
        => (IsSome(raised) /\ Val(raised)[1] = "OptimizationFailedError")

\* C7: no Sample is ever built whose x_hat has an undefined entry: a site
\* with total_calls = 0 fails the construction or was filtered out before.
C7_ZeroTotalRejected ==
    IsSome(s) => ~HasNaN(Val(s).x_hat)

IsUniform(v, k) ==
    /\ Len(v.num) = k
    /\ v.den > 0
    /\ \A j \in 1..k : v.num[j] * k = v.den

\* C8: once a Sample is built and model 'null' dispatched, the fit has
\* succeeded with K entries equal to 1/K, in fit_model and in deconvolve.
C8_NullIsUniform ==
    (model = "null" /\ IsSome(s)
        /\ pc \notin {"d_dispatch", "f_dispatch", "fit_uniform"})
        => (IsSome(sigma) /\ IsUniform(Val(sigma), atlas.K))

\* Every state the loop can end in when the trial results of bag B are
\* compared in some order: level by level, one more result compared.
RECURSIVE CompareAll(_)
CompareAll(S) ==
    IF \A x \in S : x.rest = EmptyBag THEN {x.best : x \in S}
    ELSE CompareAll(UNION {
            {[best |-> KeepBest(x.best, r),
              rest |-> x.rest (-) SetToBag({r})] : r \in BagToSet(x.rest)}
            : x \in S})
BestsOver(B) ==
    CompareAll({[best |-> [best_ll |-> Inf, best_sol |-> None], rest |-> B]})

SameReturn(o1, o2) ==
    \/ o1 = None /\ o2 = None
    \/ IsSome(o1) /\ IsSome(o2) /\ VecEq(Val(o1), Val(o2))

\* C9: for the trial results of a run, every order of comparing them ends
\* in the mixture vector this run returned.
C9_SameVectorEveryOrder ==
    MultiReturned =>
        \A b \in BestsOver(seen) : SameReturn(ReturnBest(b.best_sol), sigma)

\* All trial results that attain the best objective stand for one vector.
MinimaAgree ==
    \A r1, r2 \in Trials :
        (r1.fun = best_ll /\ r2.fun = best_ll)
            => VecEq(Normalise(r1.x), Normalise(r2.x))

\* C9, amended: every order ends in the same best objective (and so fails
\* or returns alike); it ends in the same mixture vector when the trial
\* results that attain that objective agree on the vector.  Among results
\* that tie with different vectors the one compared first is returned.
C9_SameObjectiveEveryOrder ==
    LoopDone =>
        \A b \in BestsOver(seen) :
            /\ b.best_ll = best_ll
            /\ MinimaAgree =>
                  SameReturn(ReturnBest(b.best_sol), ReturnBest(best_sol))

\* C9, witness: a run returned whose 10 trials gave two finite objectives
\* at two different mixture vectors, the best of them attained at one
\* vector only.
C9_Witness ==
    /\ MultiReturned
    /\ MinimaAgree
    /\ \E r1, r2 \in Trials :
          /\ r1.fun.kind = "fin" /\ r2.fun.kind = "fin"
          /\ r1.fun # r2.fun
          /\ ~VecEq(Normalise(r1.x), Normalise(r2.x))

\* deconvolve has returned to main.
DeconvolveReturned ==
    /\ entry = "deconvolve"
    /\ \/ pc \in {"main", "done"}
       \/ pc = "crashed" /\ Val(raised)[2] = "main:223"

\* The table main printed has one column per name of its header.
TableAligned ==
    \A k \in 1..Len(stdout) :
        stdout[k][1] = "rows" =>
            /\ stdout[k - 1][1] = "ct"
            /\ Len(stdout[k][2]) = Len(stdout[k - 1][2])

\* C10: whenever deconvolve returns, Y and sample_names have the same
\* length and the i-th vector of Y is the fit of the sample named by the
\* i-th name.
C10_NamesAligned ==
    DeconvolveReturned =>
        /\ Len(Y) = Len(sample_names)
        /\ Y_src = sample_names
        /\ TableAligned

\* C10, witness: deconvolve returned after skipping an empty first file
\* and fitting the second.
C10_Witness ==
    /\ DeconvolveReturned
    /\ pc = "done"
    /\ Len(methylomes) = 2
    /\ methylomes[1].empty
    /\ Len(Y) = 1
    /\ sample_names = <<2>>
====
